---- MODULE Spec2Model ----
(***************************************************************************)
(* Model of the typst environment adapter of src/src/docker_world.rs:      *)
(* FontDb / LazyFont (lazy font resolver), DockerWorld (virtual document   *)
(* store, memoized clock, World capability set) and DockerWorld::compile.  *)
(*                                                                         *)
(* Conventions.  Option<T> is a sequence: <<>> is None, <<v>> is Some(v).  *)
(* OnceCell<T> is a sequence too: <<>> is the uninitialised cell, <<v>>    *)
(* the initialised one.  Every call leaves its outcome in ret:             *)
(*   val = <<"Ok", v>> | <<"Err", e>>     a Result the caller receives     *)
(*   val = <<"Some", v>> | <<"None">>     an Option the caller receives    *)
(*   val = <<"Panic", msg>>               the call unwound (expect/unwrap) *)
(***************************************************************************)
EXTENDS Integers, Sequences, FiniteSets, TLC

VARIABLES
    phase,      \* "fresh": no adapter yet; "ready": DockerWorld built; "panicked": a call unwound
    input,      \* the arguments DockerWorld::new was called with, and the scanned faces
    sources,    \* DockerWorld.sources : HashMap<FileId, Bytes>
    main,       \* DockerWorld.main    : FileId
    book,       \* DockerWorld.book    : FontBook (sequence of FontInfo)
    fonts,      \* DockerWorld.fonts.fonts : Vec<LazyFont>
    now,        \* DockerWorld.now     : OnceCell<DateTime<Local>>
    disk,       \* the file system: path -> Option<file content>
    clock,      \* the wall clock (UTC instant) that Local::now() reads
    ticks,      \* how many times the wall clock has advanced
    ret,        \* outcome of the last call
    reads,      \* per descriptor: number of fs::read calls made by LazyFont::get
    nowLog,     \* every value now() has returned in this adapter's lifetime
    todayLog    \* every <<offset, value>> today(offset) has returned

vars == <<phase, input, sources, main, book, fonts, now, disk, clock, ticks, ret, reads,
          nowLog, todayLog>>

-----------------------------------------------------------------------------
(* Bounds of the model *)

\* longest document payload, in bytes
MaxLen == 6
\* most auxiliary documents handed to DockerWorld::new
MaxOthers == 2
\* most faces the scanned fontdb::Database holds
MaxFaces == 2
\* most queries the external compiler makes after main() in one compile()
MaxQueries == 1
\* how many times the wall clock advances
MaxTicks == 1

-----------------------------------------------------------------------------
(* Option / OnceCell / outcome helpers *)

None == <<>>
Some(v) == <<v>>

Ok(v) == <<"Ok", v>>
Err(e) == <<"Err", e>>
Panic(msg) == <<"Panic", msg>>
OptVal(o) == IF o = None THEN <<"None">> ELSE <<"Some", o[1]>>

IsPanic(val) == val[1] = "Panic"

NoCall == [op |-> "none", arg |-> <<>>, val |-> <<"None">>]

-----------------------------------------------------------------------------
(* File identifiers: file_id(filename) *)

\* A file name is a sequence of path components.  VirtualPath::new normalises
\* it lexically: "." is dropped, ".." removes the preceding normal component
\* (and is kept when there is none), the result is rooted at the virtual root.
RECURSIVE Normalize(_, _)
Normalize(path, out) ==
    IF path = <<>> THEN out
    ELSE LET c == Head(path) IN
         IF c = "." THEN Normalize(Tail(path), out)
         ELSE IF c = ".."
              THEN IF out # <<>> /\ out[Len(out)] # ".."
                   THEN Normalize(Tail(path), SubSeq(out, 1, Len(out) - 1))
                   ELSE Normalize(Tail(path), Append(out, c))
              ELSE Normalize(Tail(path), Append(out, c))

file_id(filename) == Normalize(filename, <<>>)

\* DocumentFile::new(name, data)
DocumentFile(name, data) == [name |-> file_id(name), data |-> data]

-----------------------------------------------------------------------------
(* decode_utf8 *)

BOM == <<239, 187, 191>>

\* Mutant of StripBom: every leading byte-order mark is removed
RECURSIVE StripAllBoms(_)
StripAllBoms(buf) ==
    IF Len(buf) >= 3 /\ SubSeq(buf, 1, 3) = <<239, 187, 191>>
    THEN StripAllBoms(SubSeq(buf, 4, Len(buf)))
    ELSE buf

\* buf.strip_prefix(b"\xef\xbb\xbf").unwrap_or(buf)
StripBom(buf) ==
    IF Len(buf) >= 3 /\ SubSeq(buf, 1, 3) = BOM
    THEN SubSeq(buf, 4, Len(buf))
    ELSE buf

IsCont(b) == b >= 128 /\ b <= 191

\* Length of the well-formed UTF-8 sequence that starts buf, 0 when the
\* first bytes are ill-formed (std::str::from_utf8's validation table).
Utf8Width(buf) ==
    LET n  == Len(buf)
        b0 == buf[1]
    IN  IF b0 <= 127 THEN 1
        ELSE IF b0 >= 194 /\ b0 <= 223
             THEN IF n >= 2 /\ IsCont(buf[2]) THEN 2 ELSE 0
        ELSE IF b0 >= 224 /\ b0 <= 239
             THEN IF /\ n >= 3
                     /\ IsCont(buf[2])
                     /\ IsCont(buf[3])
                     /\ (b0 = 224 => buf[2] >= 160)
                     /\ (b0 = 237 => buf[2] <= 159)
                  THEN 3 ELSE 0
        ELSE IF b0 >= 240 /\ b0 <= 244
             THEN IF /\ n >= 4
                     /\ IsCont(buf[2])
                     /\ IsCont(buf[3])
                     /\ IsCont(buf[4])
                     /\ (b0 = 240 => buf[2] >= 144)
                     /\ (b0 = 244 => buf[2] <= 143)
                  THEN 4 ELSE 0
        ELSE 0

\* The scalar value a well-formed sequence of width w encodes.
Utf8Scalar(buf, w) ==
    IF w = 1 THEN buf[1]
    ELSE IF w = 2 THEN (buf[1] % 32) * 64 + (buf[2] % 64)
    ELSE IF w = 3 THEN (buf[1] % 16) * 4096 + (buf[2] % 64) * 64 + (buf[3] % 64)
    ELSE (buf[1] % 8) * 262144 + (buf[2] % 64) * 4096 + (buf[3] % 64) * 64 + (buf[4] % 64)

\* std::str::from_utf8: Some(text) with text the sequence of chars, or None.
RECURSIVE FromUtf8(_, _)
FromUtf8(buf, acc) ==
    IF buf = <<>> THEN Some(acc)
    ELSE LET w == Utf8Width(buf) IN
         IF w = 0 THEN None
         ELSE FromUtf8(SubSeq(buf, w + 1, Len(buf)), Append(acc, Utf8Scalar(buf, w)))

\* decode_utf8(buf): the text, or None where the expect("What the hell") unwinds
decode_utf8(buf) == FromUtf8(StripBom(buf), <<>>)

-----------------------------------------------------------------------------
(* The virtual document store *)

EmptyMap == <<>>

\* Mutant of Insert: an existing key keeps its first value
InsertKeepFirst(map, k, v) ==
    [x \in (DOMAIN map) \cup {k} |-> IF x \in DOMAIN map THEN map[x] ELSE v]

\* HashMap::insert
Insert(map, k, v) == [x \in (DOMAIN map) \cup {k} |-> IF x = k THEN v ELSE map[x]]

\* the loop `for file in other_files { sources.insert(file.name, file.data) }`
RECURSIVE InsertAll(_, _)
InsertAll(map, files) ==
    IF files = <<>> THEN map
    ELSE InsertAll(Insert(map, Head(files).name, Head(files).data), Tail(files))

\* the `sources` map DockerWorld::new builds
BuildSources(main_document, other_files) ==
    InsertAll(Insert(EmptyMap, main_document.name, main_document.data), other_files)

\* World::source(id)
source(srcs, id) ==
    IF id \notin DOMAIN srcs THEN Panic("No Such Source file")
    ELSE LET text == decode_utf8(srcs[id]) IN
         IF text = None THEN Panic("What the hell")
         ELSE Ok([id |-> id, text |-> text[1]])

\* World::file(id)
file(srcs, id) ==
    IF id \notin DOMAIN srcs THEN Panic("No Such Source file")
    ELSE Ok(srcs[id])

\* World::main(): self.source(self.main).unwrap()
main_source(srcs, m) ==
    LET r == source(srcs, m) IN
    IF r[1] = "Err" THEN Panic("unwrap on Err") ELSE r

-----------------------------------------------------------------------------
(* The file system and the font backend *)

\* A font file's content: an identity and the face indices that decode.
\* "A" is a two-face collection, "B" a one-face font, "X" is not a font.
ContentA == [id |-> "A", faces |-> {0, 1}]
ContentB == [id |-> "B", faces |-> {0}]
ContentX == [id |-> "X", faces |-> {}]
Contents == {ContentA, ContentB, ContentX}

Paths == {"p1", "p2"}

\* fs::read(path).ok()
fs_read(d, path) == d[path]

\* Font::new(data, index): the decoded face, or None when the bytes hold no
\* usable face at that index
FontNew(data, index) ==
    IF index \in data.faces THEN Some([data |-> data.id, index |-> index]) ELSE None

\* FontInfo::new(data, index): the metadata of that face, or None
FontInfoNew(data, index) ==
    IF index \in data.faces THEN Some([family |-> data.id, face |-> index]) ELSE None

\* The faces a scanned fontdb::Database can hold.  A File face is re-opened
\* through its path; SharedFile and Binary faces carry their bytes.
FaceChoices ==
    [source : {"File"}, path : Paths, index : {0, 1}, data : {None}]
    \cup {[source |-> "SharedFile", path |-> "p1", index |-> 0, data |-> Some(ContentB)],
          [source |-> "Binary", path |-> "", index |-> 0, data |-> Some(ContentA)]}

\* database.with_face_data(face.id, FontInfo::new): None when the face's
\* bytes cannot be obtained, else Some(FontInfo::new(bytes, index))
with_face_data(d, face) ==
    LET bytes == IF face.source = "File" THEN fs_read(d, face.path) ELSE face.data
    IN  IF bytes = None THEN None ELSE Some(FontInfoNew(bytes[1], face.index))

\* LazyFont { path, index, data: OnceCell::new() }
LazyFont(path, index) == [path |-> path, index |-> index, data |-> <<>>]

\* Mutant of FontDbLoop: a face without metadata still gets a descriptor
RECURSIVE FontDbLoopPushAlways(_, _, _)
FontDbLoopPushAlways(d, faces, acc) ==
    IF faces = <<>> \/ acc.panicked THEN acc
    ELSE LET face == Head(faces) IN
         IF face.source = "Binary" THEN FontDbLoopPushAlways(d, Tail(faces), acc)
         ELSE LET info == with_face_data(d, face) IN
              IF info = None THEN [acc EXCEPT !.panicked = TRUE]
              ELSE FontDbLoopPushAlways(d, Tail(faces),
                      [acc EXCEPT !.book = IF info[1] = None THEN @ ELSE Append(@, info[1][1]),
                                  !.fonts = Append(@, [path |-> face.path, index |-> face.index,
                                                       data |-> <<>>])])

\* The loop of FontDb::new over database.faces(), with the book and the
\* descriptor vector built so far.  A Binary face is skipped, a face whose
\* bytes are unavailable unwinds ("Font load snafu"), a face without
\* metadata is skipped, any other face is pushed to both.
RECURSIVE FontDbLoop(_, _, _)
FontDbLoop(d, faces, acc) ==
    IF faces = <<>> \/ acc.panicked THEN acc
    ELSE LET face == Head(faces) IN
         IF face.source = "Binary" THEN FontDbLoop(d, Tail(faces), acc)
         ELSE LET info == with_face_data(d, face) IN
              IF info = None THEN [acc EXCEPT !.panicked = TRUE]
              ELSE IF info[1] = None THEN FontDbLoop(d, Tail(faces), acc)
              ELSE FontDbLoop(d, Tail(faces),
                              [acc EXCEPT !.book = Append(@, info[1][1]),
                                          !.fonts = Append(@, LazyFont(face.path, face.index))])

\* FontDb::new(fontdir, &mut book)
FontDbNew(d, faces) ==
    FontDbLoop(d, faces, [book |-> <<>>, fonts |-> <<>>, panicked |-> FALSE])

\* Mutant of LazyFontGet: no memoization, every call reads and decodes
LazyFontGetReload(f, d) ==
    LET bytes == d[f.path]
        font  == IF bytes = None THEN None
                 ELSE IF f.index \in bytes[1].faces
                      THEN <<[data |-> bytes[1].id, index |-> f.index]>> ELSE None
    IN  [cell |-> <<font>>, val |-> font, read |-> 1]

\* Mutant of LazyFontGet: the face index is ignored, face 0 is decoded
LazyFontGetFaceZero(f, d) ==
    IF f.data # <<>>
    THEN [cell |-> f.data, val |-> f.data[1], read |-> 0]
    ELSE LET bytes == d[f.path]
             font  == IF bytes = None THEN None
                      ELSE IF 0 \in bytes[1].faces
                           THEN <<[data |-> bytes[1].id, index |-> 0]>> ELSE None
         IN  [cell |-> <<font>>, val |-> font, read |-> 1]

\* LazyFont::get: self.data.get_or_init(|| read and decode).clone()
\* cell: the slot afterwards; val: the Option<Font> returned; read: whether
\* fs::read ran
LazyFontGet(f, d) ==
    IF f.data # <<>>
    THEN [cell |-> f.data, val |-> f.data[1], read |-> 0]
    ELSE LET bytes == fs_read(d, f.path)
             font  == IF bytes = None THEN None ELSE FontNew(bytes[1], f.index)
         IN  [cell |-> Some(font), val |-> font, read |-> 1]

\* FontDb::get(index) = self.fonts[index].get(), as the new descriptor
\* vector, the new read counts and the value returned
FontDbGet(fs, rd, d, index) ==
    LET g == LazyFontGet(fs[index + 1], d) IN
    [fonts |-> [fs EXCEPT ![index + 1].data = g.cell],
     reads |-> [rd EXCEPT ![index + 1] = @ + g.read],
     val   |-> g.val]

-----------------------------------------------------------------------------
(* The clock *)

\* A NaiveDateTime is [date |-> days since 1970-01-01, secs |-> second of day].
\* A DateTime<Local> is [utc |-> NaiveDateTime, offset |-> seconds east of UTC].

SecsPerDay == 24 * 3600

\* NaiveDateTime + seconds (|s| well below 2^31)
AddSecs(ndt, s) ==
    LET t == ndt.secs + s IN
    [date |-> ndt.date + (t \div SecsPerDay), secs |-> t % SecsPerDay]

\* NaiveDateTime + chrono::Duration::hours(o)
AddHours(ndt, o) ==
    LET t == ndt.secs + (o % 24) * 3600 IN
    [date |-> ndt.date + (o \div 24) + (t \div SecsPerDay), secs |-> t % SecsPerDay]

\* Mutant of naive_utc: the local wall time is taken for UTC
NaiveUtcIsLocal(dt) ==
    LET t == dt.utc.secs + dt.offset IN
    [date |-> dt.utc.date + (t \div SecsPerDay), secs |-> t % SecsPerDay]

\* DateTime::naive_utc / DateTime::naive_local
naive_utc(dt) == dt.utc
naive_local(dt) == AddSecs(dt.utc, dt.offset)

\* Datelike::year/month/day of a date given as days since 1970-01-01
\* (proleptic Gregorian calendar)
Civil(days) ==
    LET z   == days + 719468
        era == z \div 146097
        doe == z - era * 146097
        yoe == (doe - (doe \div 1460) + (doe \div 36524) - (doe \div 146096)) \div 365
        doy == doe - (365 * yoe + (yoe \div 4) - (yoe \div 100))
        mp  == (5 * doy + 2) \div 153
        d   == doy - ((153 * mp + 2) \div 5) + 1
        m   == IF mp < 10 THEN mp + 3 ELSE mp - 9
        y   == yoe + era * 400 + (IF m <= 2 THEN 1 ELSE 0)
    IN  [year |-> y, month |-> m, day |-> d]

\* Timelike::hour/minute/second
Hour(ndt) == ndt.secs \div 3600
Minute(ndt) == (ndt.secs % 3600) \div 60
Second(ndt) == ndt.secs % 60

\* u32 -> u8: x.try_into().ok()
TryIntoU8(x) == IF x >= 0 /\ x <= 255 THEN Some(x) ELSE None

IsLeap(y) == (y % 4 = 0) /\ ((y % 100 # 0) \/ (y % 400 = 0))
DaysInMonth(y, m) ==
    IF m = 2 THEN (IF IsLeap(y) THEN 29 ELSE 28)
    ELSE IF m \in {4, 6, 9, 11} THEN 30 ELSE 31

\* The years the compiler's date type represents
YearRange == (0 - 9999) .. 9999

\* Datetime::from_ymd(year, month, day)
from_ymd(year, month, day) ==
    IF /\ year \in YearRange
       /\ month \in 1 .. 12
       /\ day >= 1
       /\ day <= DaysInMonth(year, month)
    THEN Some([year |-> year, month |-> month, day |-> day])
    ELSE None

\* Datetime::from_ymd_hms(year, month, day, hour, minute, second)
from_ymd_hms(year, month, day, hour, minute, second) ==
    IF from_ymd(year, month, day) # None /\ hour <= 23 /\ minute <= 59 /\ second <= 59
    THEN Some([year |-> year, month |-> month, day |-> day,
               hour |-> hour, minute |-> minute, second |-> second])
    ELSE None

\* Mutant of GetOrInitNow: every call captures the wall clock again
GetOrInitNowOverwrite(cell, wall) == <<wall>>

\* self.now.get_or_init(Local::now): the cell afterwards
GetOrInitNow(cell, wall) == IF cell # <<>> THEN cell ELSE Some(wall)

\* DockerWorld::now, given the initialised cell's moment
NowOf(moment) ==
    LET l == naive_local(moment)
        c == Civil(l.date)
        mo == TryIntoU8(c.month)
        da == TryIntoU8(c.day)
        ho == TryIntoU8(Hour(l))
        mi == TryIntoU8(Minute(l))
        se == TryIntoU8(Second(l))
    IN  IF None \in {mo, da, ho, mi, se} THEN None
        ELSE from_ymd_hms(c.year, mo[1], da[1], ho[1], mi[1], se[1])

\* World::today(offset), given the initialised cell's moment
TodayOf(moment, offset) ==
    LET naive == IF offset = None THEN naive_local(moment)
                 ELSE AddHours(naive_utc(moment), offset[1])
        c == Civil(naive.date)
        mo == TryIntoU8(c.month)
        da == TryIntoU8(c.day)
    IN  IF None \in {mo, da} THEN None
        ELSE from_ymd(c.year, mo[1], da[1])

-----------------------------------------------------------------------------
(* Inputs *)

\* Names callers give their documents, as path components
FileNames == {<<"main.typ">>, <<".", "main.typ">>, <<"a.typ">>}

\* Identifiers the compiler asks for
FileIds == {file_id(n) : n \in FileNames} \cup {<<"missing.typ">>}

\* Payload samples: "a", "b", BOM + "a"
Payloads == {<<97>>, <<98>>, BOM \o <<97>>}

\* Every payload of at most MaxLen bytes over 'a' and the three BOM bytes
\* (a lead byte and two continuation bytes)
ByteAlphabet == {97, 239, 187, 191}
AllPayloads == UNION {[1 .. n -> ByteAlphabet] : n \in 0 .. MaxLen}

Documents(names, payloads) == {DocumentFile(n, d) : n \in names, d \in payloads}

\* Sequences of at most n elements of S
SeqsUpTo(S, n) == UNION {[1 .. k -> S] : k \in 0 .. n}

\* Hour offsets the compiler passes to today(): none, one hour forward, two
\* days back, and one that moves the date past the year 9999
Offsets == {None, Some(1), Some(0 - 48), Some(90000000)}

\* Sample wall-clock instants (UTC) at construction time:
\* 2026-11-03 23:30:00, 2024-02-28 23:30:00, 2025-12-31 18:15:42
Instants == {[date |-> 20760, secs |-> 84600],
             [date |-> 19781, secs |-> 84600],
             [date |-> 20453, secs |-> 65742]}

\* Local time zones, in seconds east of UTC: -05:00, +05:30
Zones == {0 - 18000, 19800}

\* Steps by which the wall clock advances between calls
TickSteps == {1, 1800}

\* Local::now()
LocalNow == clock

-----------------------------------------------------------------------------
(* State before DockerWorld::new *)

InitWith(disks, instants, zones) ==
    /\ phase = "fresh"
    /\ input = <<>>
    /\ sources = EmptyMap
    /\ main = <<>>
    /\ book = <<>>
    /\ fonts = <<>>
    /\ now = <<>>
    /\ disk \in disks
    /\ clock \in [utc : instants, offset : zones]
    /\ ticks = 0
    /\ ret = NoCall
    /\ reads = <<>>
    /\ nowLog = {}
    /\ todayLog = {}

\* Both font files present and decodable
GoodDisk == [p \in Paths |-> Some(ContentA)]

-----------------------------------------------------------------------------
(* DockerWorld::new *)

New(mainDocs, otherLists, dbs) ==
    /\ phase = "fresh"
    /\ \E main_document \in mainDocs, other_files \in otherLists, faces \in dbs :
          LET db == FontDbNew(disk, faces) IN
          /\ input' = [main_document |-> main_document, other_files |-> other_files,
                        faces |-> faces]
          /\ IF db.panicked
             THEN /\ phase' = "panicked"
                  /\ ret' = [op |-> "new", arg |-> <<>>, val |-> Panic("Font load snafu")]
                  /\ UNCHANGED <<sources, main, book, fonts, reads>>
             ELSE /\ phase' = "ready"
                  /\ book' = db.book
                  /\ fonts' = db.fonts
                  /\ reads' = [i \in 1 .. Len(db.fonts) |-> 0]
                  /\ main' = main_document.name
                  /\ sources' = BuildSources(main_document, other_files)
                  /\ ret' = [op |-> "new", arg |-> <<>>, val |-> Ok("DockerWorld")]
    /\ now' = <<>>
    /\ UNCHANGED <<disk, clock, ticks, nowLog, todayLog>>

-----------------------------------------------------------------------------
(* The World capability set *)

PhaseAfter(val) == IF IsPanic(val) THEN "panicked" ELSE "ready"

\* World::library
Library ==
    /\ phase = "ready"
    /\ ret' = [op |-> "library", arg |-> <<>>, val |-> Ok("typst_library")]
    /\ UNCHANGED <<phase, input, sources, main, book, fonts, now, disk, clock, ticks, reads,
                   nowLog, todayLog>>

\* World::book
Book ==
    /\ phase = "ready"
    /\ ret' = [op |-> "book", arg |-> <<>>, val |-> Ok(book)]
    /\ UNCHANGED <<phase, input, sources, main, book, fonts, now, disk, clock, ticks, reads,
                   nowLog, todayLog>>

\* World::main
Main ==
    /\ phase = "ready"
    /\ LET val == main_source(sources, main) IN
          /\ ret' = [op |-> "main", arg |-> <<>>, val |-> val]
          /\ phase' = PhaseAfter(val)
    /\ UNCHANGED <<input, sources, main, book, fonts, now, disk, clock, ticks, reads,
                   nowLog, todayLog>>

\* Mutant of Source: a missing identifier is inserted with an empty payload
SourceInserting(ids) ==
    /\ phase = "ready"
    /\ \E id \in ids :
          /\ sources' = IF id \in DOMAIN sources THEN sources
                        ELSE [x \in (DOMAIN sources) \cup {id} |->
                                 IF x = id THEN <<>> ELSE sources[x]]
          /\ ret' = [op |-> "source", arg |-> <<id>>,
                     val |-> <<"Ok", [id |-> id, text |-> <<>>]>>]
    /\ UNCHANGED <<phase, input, main, book, fonts, now, disk, clock, ticks, reads,
                   nowLog, todayLog>>

\* World::source
Source(ids) ==
    /\ phase = "ready"
    /\ \E id \in ids :
          LET val == source(sources, id) IN
          /\ ret' = [op |-> "source", arg |-> <<id>>, val |-> val]
          /\ phase' = PhaseAfter(val)
    /\ UNCHANGED <<input, sources, main, book, fonts, now, disk, clock, ticks, reads,
                   nowLog, todayLog>>

\* World::file
File(ids) ==
    /\ phase = "ready"
    /\ \E id \in ids :
          LET val == file(sources, id) IN
          /\ ret' = [op |-> "file", arg |-> <<id>>, val |-> val]
          /\ phase' = PhaseAfter(val)
    /\ UNCHANGED <<input, sources, main, book, fonts, now, disk, clock, ticks, reads,
                   nowLog, todayLog>>

\* World::font, for the indices the font book offers
Font ==
    /\ phase = "ready"
    /\ \E index \in 0 .. (Len(fonts) - 1) :
          LET g == FontDbGet(fonts, reads, disk, index) IN
          /\ fonts' = g.fonts
          /\ reads' = g.reads
          /\ ret' = [op |-> "font", arg |-> <<index>>, val |-> OptVal(g.val)]
    /\ UNCHANGED <<phase, input, sources, main, book, now, disk, clock, ticks, nowLog, todayLog>>

\* DockerWorld::now
Now ==
    /\ phase = "ready"
    /\ now' = GetOrInitNow(now, LocalNow)
    /\ LET val == OptVal(NowOf(now'[1])) IN
          /\ ret' = [op |-> "now", arg |-> <<>>, val |-> val]
          /\ nowLog' = nowLog \cup {val}
    /\ UNCHANGED <<phase, input, sources, main, book, fonts, disk, clock, ticks, reads, todayLog>>

\* World::today
Today(offsets) ==
    /\ phase = "ready"
    /\ now' = GetOrInitNow(now, LocalNow)
    /\ \E offset \in offsets :
          LET val == OptVal(TodayOf(now'[1], offset)) IN
          /\ ret' = [op |-> "today", arg |-> <<offset>>, val |-> val]
          /\ todayLog' = todayLog \cup {<<offset, val>>}
    /\ UNCHANGED <<phase, input, sources, main, book, fonts, disk, clock, ticks, reads, nowLog>>

-----------------------------------------------------------------------------
(* DockerWorld::compile *)

\* typst::compile is the external compiler.  It reads the main source and
\* then queries the World any number of times; a query is <<op, arg>> with
\* op one of "main", "source", "file", "font", "today".

\* The part of the adapter a query can change, threaded through the run:
\* failed records that some query returned Err to the compiler, val is the
\* panic that ended the run.
RunState == [fonts |-> fonts, reads |-> reads, now |-> now, todayLog |-> todayLog,
             failed |-> FALSE, panicked |-> FALSE, val |-> <<"None">>]

AfterResult(st, val) ==
    IF IsPanic(val) THEN [st EXCEPT !.panicked = TRUE, !.val = val]
    ELSE IF val[1] = "Err" THEN [st EXCEPT !.failed = TRUE]
    ELSE st

\* One World query made by the compiler
Query(q, st) ==
    IF q[1] = "main" THEN AfterResult(st, main_source(sources, main))
    ELSE IF q[1] = "source" THEN AfterResult(st, source(sources, q[2]))
    ELSE IF q[1] = "file" THEN AfterResult(st, file(sources, q[2]))
    ELSE IF q[1] = "font"
         THEN IF q[2] >= Len(st.fonts) THEN AfterResult(st, Panic("index out of bounds"))
              ELSE LET g == FontDbGet(st.fonts, st.reads, disk, q[2]) IN
                   [st EXCEPT !.fonts = g.fonts, !.reads = g.reads]
    ELSE LET cell == GetOrInitNow(st.now, LocalNow) IN
         [st EXCEPT !.now = cell,
                    !.todayLog = @ \cup {<<q[2], OptVal(TodayOf(cell[1], q[2]))>>}]

RECURSIVE RunQueries(_, _)
RunQueries(qs, st) ==
    IF qs = <<>> \/ st.panicked THEN st
    ELSE RunQueries(Tail(qs), Query(Head(qs), st))

\* typst::compile(self, &mut tracer) followed by the match on its result.
\* The compiler's verdict is its own, except that a query it saw fail makes
\* it report an error.  It asks only for fonts the font book lists.
Compile(queries) ==
    /\ phase = "ready"
    /\ \E qs \in SeqsUpTo(queries, MaxQueries), verdict \in {"Ok", "Err"} :
          LET st == RunQueries(<<<<"main", <<>>>>>> \o qs, RunState) IN
          /\ \A k \in 1 .. Len(qs) : qs[k][1] = "font" => qs[k][2] < Len(book)
          /\ fonts' = st.fonts
          /\ reads' = st.reads
          /\ todayLog' = st.todayLog
          /\ IF st.panicked
             THEN /\ phase' = "panicked"
                  /\ ret' = [op |-> "compile", arg |-> qs, val |-> st.val]
                  /\ now' = st.now
                  /\ UNCHANGED nowLog
             ELSE IF verdict = "Err" \/ st.failed
             THEN /\ ret' = [op |-> "compile", arg |-> qs,
                             val |-> Err("Something terrible has happened")]
                  /\ now' = st.now
                  /\ UNCHANGED <<phase, nowLog>>
             ELSE LET cell == GetOrInitNow(st.now, LocalNow)
                      ts   == OptVal(NowOf(cell[1]))
                  IN  /\ ret' = [op |-> "compile", arg |-> qs,
                                 val |-> Ok([magic |-> "%PDF", timestamp |-> ts])]
                      /\ now' = cell
                      /\ nowLog' = nowLog \cup {ts}
                      /\ UNCHANGED phase
    /\ UNCHANGED <<input, sources, main, book, disk, clock, ticks>>

-----------------------------------------------------------------------------
(* The environment *)

\* A font file is deleted, replaced or restored
DiskChange(paths, contents) ==
    /\ phase # "panicked"
    /\ \E p \in paths, c \in {None} \cup {Some(x) : x \in contents} :
          /\ c # disk[p]
          /\ disk' = [disk EXCEPT ![p] = c]
    /\ ret' = NoCall
    /\ UNCHANGED <<phase, input, sources, main, book, fonts, now, clock, ticks, reads,
                   nowLog, todayLog>>

\* The wall clock advances
Tick(steps) ==
    /\ phase # "panicked"
    /\ ticks < MaxTicks
    /\ \E s \in steps : clock' = [clock EXCEPT !.utc = AddSecs(@, s)]
    /\ ticks' = ticks + 1
    /\ ret' = NoCall
    /\ UNCHANGED <<phase, input, sources, main, book, fonts, now, disk, reads, nowLog, todayLog>>

-----------------------------------------------------------------------------
(* Specifications *)

OneMain == {DocumentFile(<<"main.typ">>, <<97>>)}
NoFaces == {<<>>}
TwoFaces == {<<[source |-> "File", path |-> "p1", index |-> 0, data |-> None],
               [source |-> "File", path |-> "p2", index |-> 1, data |-> None]>>}
OneInstant == {[date |-> 20760, secs |-> 84600]}

\* The document store: every choice of main and auxiliary documents
InitStore == InitWith({GoodDisk}, OneInstant, {0})
NextStore ==
    \/ New(Documents(FileNames, Payloads),
           SeqsUpTo(Documents(FileNames, Payloads), MaxOthers), NoFaces)
    \/ Main
    \/ Source(FileIds)
    \/ File(FileIds)
    \/ Compile({<<"source", <<"missing.typ">>>>, <<"file", <<"a.typ">>>>})
SpecStore == InitStore /\ [][NextStore]_vars

\* Reading one document: every payload of at most MaxLen bytes
NextDecode ==
    \/ New(Documents({<<"main.typ">>}, AllPayloads), {<<>>}, NoFaces)
    \/ Main
    \/ Source({<<"main.typ">>})
    \/ File({<<"main.typ">>})
SpecDecode == InitStore /\ [][NextDecode]_vars

\* The font resolver: every face database, a file system that changes
InitFont == InitWith({GoodDisk}, OneInstant, {0})
NextFont ==
    \/ New(OneMain, {<<>>}, SeqsUpTo(FaceChoices, MaxFaces))
    \/ Book
    \/ Font
    \/ DiskChange(Paths, Contents)
SpecFont == InitFont /\ [][NextFont]_vars

\* The clock: sample instants and zones, a wall clock that advances
InitClock == InitWith({GoodDisk}, Instants, Zones)
NextClock ==
    \/ New(OneMain, {<<>>}, NoFaces)
    \/ Now
    \/ Today(Offsets)
    \/ Compile({<<"today", None>>, <<"today", Some(1)>>})
    \/ Tick(TickSteps)
SpecClock == InitClock /\ [][NextClock]_vars

\* The whole adapter on small inputs
Init == InitWith({GoodDisk}, OneInstant, {19800})
Next ==
    \/ New(Documents({<<"main.typ">>}, {<<97>>}),
           SeqsUpTo(Documents({<<"a.typ">>}, {<<98>>}), 1), TwoFaces)
    \/ Library
    \/ Book
    \/ Main
    \/ Source({<<"a.typ">>, <<"missing.typ">>})
    \/ File({<<"a.typ">>, <<"missing.typ">>})
    \/ Font
    \/ Now
    \/ Today({None, Some(1)})
    \/ Compile({<<"source", <<"a.typ">>>>, <<"file", <<"missing.typ">>>>,
                <<"font", 0>>, <<"today", None>>})
    \/ DiskChange({"p1"}, {ContentA})
    \/ Tick({1800})
Spec == Init /\ [][Next]_vars

-----------------------------------------------------------------------------
(* Properties of the document store *)

\* The last call was source(id) or file(id) for an id the store lacks
MissQuery ==
    /\ ret.op \in {"source", "file"}
    /\ ret.arg[1] \notin DOMAIN sources

\* C1: a source() or binary_file() query for an identifier that is not a key
\* of the store returns a "no such file" failure value; the call does not
\* unwind and the adapter stays usable.
C1_MissIsFailureValue ==
    MissQuery => (ret.val[1] = "Err" /\ phase = "ready")

\* C2: every run of compile() ends with a binary artifact or with the one
\* generic compile-failure error; it never unwinds, in particular not when
\* the compiler asked for an identifier that was never inserted.
C2_CompileArtifactOrError ==
    ret.op = "compile" =>
        \/ ret.val[1] = "Ok" /\ ret.val[2].magic = "%PDF"
        \/ ret.val = Err("Something terrible has happened")

\* The documents handed to DockerWorld::new, in insertion order
Inserted == <<input.main_document>> \o input.other_files

\* Position of the last inserted document named id (0 when there is none)
LastNamed(id) ==
    IF \E k \in 1 .. Len(Inserted) : Inserted[k].name = id
    THEN CHOOSE k \in 1 .. Len(Inserted) :
            /\ Inserted[k].name = id
            /\ \A j \in (k + 1) .. Len(Inserted) : Inserted[j].name # id
    ELSE 0

\* Some auxiliary document carries the main document's identifier
MainOverwritten ==
    \E k \in 1 .. Len(input.other_files) : input.other_files[k].name = main

\* C6: the store holds, for every identifier, the payload of the last
\* document carrying it in the order main, auxiliaries; the main identifier
\* is always a key; when an auxiliary carries the main identifier,
\* source(main) and main_source() return that auxiliary's content.
C6_LastWriteWins ==
    phase = "ready" =>
        /\ main = input.main_document.name
        /\ main \in DOMAIN sources
        /\ DOMAIN sources = {Inserted[k].name : k \in 1 .. Len(Inserted)}
        /\ \A id \in DOMAIN sources : sources[id] = Inserted[LastNamed(id)].data
        /\ (MainOverwritten /\ (ret.op = "main" \/ (ret.op = "source" /\ ret.arg = <<main>>))) =>
              /\ LastNamed(main) > 1
              /\ ret.val[1] = "Ok"
              /\ Some(ret.val[2].text) = decode_utf8(Inserted[LastNamed(main)].data)

\* C6 witness: an auxiliary with other content overwrote the main document
\* and main_source() was read
C6_Witness ==
    /\ phase = "ready"
    /\ MainOverwritten
    /\ ret.op = "main"
    /\ sources[main] # input.main_document.data
    /\ Len(input.other_files) = 2
    /\ input.other_files[1].name = main
    /\ input.other_files[2].name = main
    /\ input.other_files[1].data # input.other_files[2].data

-----------------------------------------------------------------------------
(* Properties of reading a document *)

\* UTF-8 encoding of one scalar value
Utf8EncodeChar(c) ==
    IF c < 128 THEN <<c>>
    ELSE IF c < 2048 THEN <<192 + (c \div 64), 128 + (c % 64)>>
    ELSE IF c < 65536
         THEN <<224 + (c \div 4096), 128 + ((c \div 64) % 64), 128 + (c % 64)>>
    ELSE <<240 + (c \div 262144), 128 + ((c \div 4096) % 64),
           128 + ((c \div 64) % 64), 128 + (c % 64)>>

RECURSIVE Utf8Encode(_)
Utf8Encode(text) ==
    IF text = <<>> THEN <<>> ELSE Utf8EncodeChar(Head(text)) \o Utf8Encode(Tail(text))

\* The scalar values whose encodings use only bytes of ByteAlphabet:
\* 'a', U+FEFB, U+FEFF (the byte-order mark), U+FFFB, U+FFFF
Scalars == {97, 65275, 65279, 65531, 65535}

\* The encodings of all texts of at most MaxLen scalars
WellFormed == {Utf8Encode(t) : t \in SeqsUpTo(Scalars, MaxLen)}

\* bytes without one leading byte-order mark
WithoutBom(bytes) ==
    IF \E rest \in {SubSeq(bytes, 4, Len(bytes))} : bytes = <<239, 187, 191>> \o rest
    THEN SubSeq(bytes, 4, Len(bytes))
    ELSE bytes

\* C8: for a stored document whose bytes are well-formed UTF-8 after an
\* optional leading byte-order mark, source(id) returns the text of the
\* bytes with exactly one leading byte-order mark removed and nothing else
\* changed, and binary_file(id) returns the bytes unmodified.
C8_SourceTextAndBytes ==
    (phase # "fresh" /\ ret.op \in {"source", "file", "main"}) =>
        LET bytes == input.main_document.data IN
        /\ ret.op = "file" => ret.val = Ok(bytes)
        /\ (ret.op \in {"source", "main"} /\ WithoutBom(bytes) \in WellFormed) =>
              /\ phase = "ready"
              /\ ret.val[1] = "Ok"
              /\ ret.val[2].id = main
              /\ Utf8Encode(ret.val[2].text) = WithoutBom(bytes)

\* C8 witness: a payload of two byte-order marks was read as text; the
\* second mark stays in the text
C8_Witness ==
    /\ ret.op = "source"
    /\ input.main_document.data = <<239, 187, 191, 239, 187, 191>>
    /\ ret.val[1] = "Ok"
    /\ ret.val[2].text = <<65279>>

-----------------------------------------------------------------------------
(* Properties of the font resolver *)

\* The descriptor's backing file cannot be read, or holds no usable face at
\* the descriptor's index
Unusable(f) == disk[f.path] = None \/ f.index \notin disk[f.path][1].faces

\* Every slot is empty exactly while its file was never read, no file is
\* read twice, and font(i) returns what slot i holds
C3_SlotInv ==
    \A i \in 1 .. Len(fonts) :
        /\ reads[i] <= 1
        /\ (fonts[i].data = <<>>) <=> (reads[i] = 0)
        /\ (ret.op = "font" /\ ret.arg = <<i - 1>>) =>
              /\ fonts[i].data # <<>>
              /\ ret.val = OptVal(fonts[i].data[1])

\* A filled slot is never changed or emptied and its file is not read again
C3_SlotStep ==
    \A i \in 1 .. Len(fonts) :
        fonts[i].data # <<>> => (fonts'[i].data = fonts[i].data /\ reads'[i] = reads[i])

\* C3: for every descriptor the backing file is read at most once; the slot
\* goes from empty to filled on the first font(i) and never changes
\* afterwards, so every later font(i) returns the value the first one stored.
C3_ReadAtMostOnce == []C3_SlotInv /\ [][C3_SlotStep]_vars

\* C3 witness: font(i) answered "no font" from the slot although the file
\* is by now readable and decodable
C3_Witness ==
    /\ ret.op = "font"
    /\ ret.val = <<"None">>
    /\ reads[ret.arg[1] + 1] = 1
    /\ ~Unusable(fonts[ret.arg[1] + 1])

\* C4 as stated: whenever the backing file of descriptor i is unreadable or
\* undecodable at a font(i) query, the query returns "no font".
C4_UnusableFileMeansNoFont ==
    (ret.op = "font" /\ Unusable(fonts[ret.arg[1] + 1])) => ret.val = <<"None">>

\* A font(i) step: it does not unwind, touches no other descriptor, and on
\* an empty slot with an unusable file answers "no font"
C4_FontStep ==
    (phase = "ready" /\ ret'.op = "font") =>
        LET i == ret'.arg[1] + 1 IN
        /\ phase' = "ready"
        /\ \A j \in (1 .. Len(fonts)) \ {i} : fonts'[j] = fonts[j] /\ reads'[j] = reads[j]
        /\ (fonts[i].data = <<>> /\ Unusable(fonts[i])) =>
              (ret'.val = <<"None">> /\ fonts'[i].data = <<None>>)

\* C4 (amended): a font(i) query made while slot i is empty and the backing
\* file is unreadable or undecodable returns "no font"; no font query
\* unwinds, and it leaves every other descriptor as it was.
C4_SoftFontMiss == [][C4_FontStep]_vars /\ [](ret.op = "font" => phase = "ready")

\* C4 witness: "no font" for a deleted file while another descriptor holds a
\* loaded font
C4_Witness ==
    /\ ret.op = "font"
    /\ ret.val = <<"None">>
    /\ disk[fonts[ret.arg[1] + 1].path] = None
    /\ \E j \in 1 .. Len(fonts) : fonts[j].data # <<>> /\ fonts[j].data[1] # None

\* A face FontDb::new keeps: file-backed and with metadata
KeptFace(face) ==
    /\ face.source # "Binary"
    /\ with_face_data(disk, face) # None
    /\ with_face_data(disk, face)[1] # None

\* C5: the font index and the descriptor vector have the same length, and
\* right after construction position i of both describes the i-th face
\* that was not skipped: the descriptor records its path and face index, the
\* index holds the metadata extracted from it.
C5_IndexAligned ==
    /\ Len(book) = Len(fonts)
    /\ (ret.op = "new" /\ phase = "ready") =>
          LET kept == SelectSeq(input.faces, KeptFace) IN
          /\ Len(book) = Len(kept)
          /\ \A i \in 1 .. Len(kept) :
                /\ fonts[i].path = kept[i].path
                /\ fonts[i].index = kept[i].index
                /\ fonts[i].data = <<>>
                /\ Some(Some(book[i])) = with_face_data(disk, kept[i])

\* C5 witness: the first of two faces was skipped, the second one kept
C5_Witness ==
    /\ ret.op = "new"
    /\ phase = "ready"
    /\ Len(input.faces) = 2
    /\ ~KeptFace(input.faces[1])
    /\ input.faces[1].source = "File"
    /\ Len(book) = 1
    /\ fonts[1].path = input.faces[2].path

-----------------------------------------------------------------------------
(* Properties of the clock *)

\* The today(None) results returned so far
TodayNoneLog == {t \in todayLog : t[1] = None}

\* now() and today(None) each reported one value only, taken from a set
\* moment, and the date today(None) reported is the date now() reported
C7_LogInv ==
    /\ Cardinality(nowLog) <= 1
    /\ Cardinality(TodayNoneLog) <= 1
    /\ (nowLog # {} \/ todayLog # {}) => now # <<>>
    /\ \A n \in nowLog : \A t \in TodayNoneLog :
          /\ n[1] = "Some"
          /\ t[2][1] = "Some"
          /\ t[2][2] = [year |-> n[2].year, month |-> n[2].month, day |-> n[2].day]

\* The moment is set by now(), today() or compile(), from the wall clock of
\* that call, and a set moment is never overwritten
C7_Step ==
    /\ now # <<>> => now' = now
    /\ (now = <<>> /\ now' # <<>>) =>
          (now' = <<clock>> /\ ret'.op \in {"now", "today", "compile"})

LeapsBefore(y) == ((y - 1) \div 4) - ((y - 1) \div 100) + ((y - 1) \div 400)

\* Days from 1970-01-01 to 1 January of year y
DaysBeforeYear(y) == 365 * (y - 1970) + LeapsBefore(y) - LeapsBefore(1970)

\* Days of a common year before the first of each month
CumDays == <<0, 31, 59, 90, 120, 151, 181, 212, 243, 273, 304, 334>>

\* Days from 1970-01-01 to the calendar date d
DayNumber(d) ==
    DaysBeforeYear(d.year) + CumDays[d.month] + d.day - 1
    + (IF d.month > 2 /\ IsLeap(d.year) THEN 1 ELSE 0)

\* d is the calendar date of day number n
IsDateOf(d, n) ==
    /\ d.month \in 1 .. 12
    /\ d.day \in 1 .. DaysInMonth(d.year, d.month)
    /\ DayNumber(d) = n

\* Day number of (the memoized moment in UTC + o hours)
ShiftedDay(o) == now[1].utc.date + (((now[1].utc.secs \div 3600) + o) \div 24)

\* Day number of the memoized moment in local time
LocalDay == now[1].utc.date + ((now[1].utc.secs + now[1].offset) \div 86400)

\* The day today(offset) is asked about
AskedDay(offset) == IF offset = None THEN LocalDay ELSE ShiftedDay(offset[1])

\* The day lies in the years the compiler's date type represents
Representable(n) ==
    /\ n >= DayNumber([year |-> 0 - 9999, month |-> 1, day |-> 1])
    /\ n <= DayNumber([year |-> 9999, month |-> 12, day |-> 31])

\* C9 as stated: for every hour offset o, today(Some(o)) reports the
\* calendar date of (the moment in UTC + o hours).
C9_EveryOffsetGivesDate ==
    (ret.op = "today" /\ ret.arg[1] # None) =>
        (ret.val[1] = "Some" /\ IsDateOf(ret.val[2], ShiftedDay(ret.arg[1][1])))

\* C9 (amended): when the date of (the moment in UTC + o hours) lies in the
\* years -9999 to 9999, today(Some(o)) reports that date, by calendar
\* arithmetic and whatever the local zone (23:30 UTC with offset 1 gives the
\* next day); today(None) reports the local date of the same moment.
C9_TodayDate ==
    ret.op = "today" =>
        /\ Representable(AskedDay(ret.arg[1])) =>
              (ret.val[1] = "Some" /\ IsDateOf(ret.val[2], AskedDay(ret.arg[1])))
        /\ (ret.arg[1] = Some(1) /\ now[1].utc = [date |-> 20760, secs |-> 84600]) =>
              ret.val = <<"Some", [year |-> 2026, month |-> 11, day |-> 4]>>

\* C9 witness: today(Some(1)) at 23:30 UTC, in a zone whose local date is
\* already the next day, gave the next UTC day
C9_Witness ==
    /\ ret.op = "today"
    /\ ret.arg[1] = Some(1)
    /\ now[1].utc.secs = 84600
    /\ now[1].offset = 19800
    /\ ret.val[1] = "Some"
    /\ DayNumber(ret.val[2]) = now[1].utc.date + 1

-----------------------------------------------------------------------------
(* Frame of the adapter's operations *)

\* What a step on a built adapter may change: an empty font slot or an unset
\* moment becoming filled, nothing else of the adapter
C10_Step ==
    phase = "ready" =>
        /\ sources' = sources
        /\ main' = main
        /\ book' = book
        /\ Len(fonts') = Len(fonts)
        /\ \A i \in 1 .. Len(fonts) :
              /\ fonts'[i].path = fonts[i].path
              /\ fonts'[i].index = fonts[i].index
              /\ fonts'[i].data # fonts[i].data => (fonts[i].data = <<>> /\ fonts'[i].data # <<>>)
        /\ now' # now => (now = <<>> /\ now' # <<>>)

\* C10: after construction no operation, succeeding or failing, changes the
\* document store, the main identifier, the font index or a descriptor's
\* path and face index; only a font slot or the memoized moment changes,
\* each from empty to filled.
C10_Frame == [][C10_Step]_vars

\* C10 witness: a compile() that unwound after a font was loaded and the
\* moment was set
C10_Witness ==
    /\ phase = "panicked"
    /\ ret.op = "compile"
    /\ now # <<>>
    /\ \E i \in 1 .. Len(fonts) : fonts[i].data # <<>>
    /\ DOMAIN sources = {<<"main.typ">>, <<"a.typ">>}

====
